---- MODULE Spec2Model ----
(***************************************************************************)
(* Model of the Viteset client (src/client.go): a Client polls one blob    *)
(* over HTTP on a ticker and sends Updates on an unbuffered channel.       *)
(*                                                                         *)
(* The caller's operations (Subscribe, Cancel) are one action each.  The   *)
(* polling goroutine started by Subscribe is modelled with one action per  *)
(* blocking point or shared-memory access of its loop (client.go:61-77).   *)
(* The HTTP server, the passing of time and the consumer reading the       *)
(* channel are the environment.                                            *)
(***************************************************************************)
EXTENDS Integers, Sequences, FiniteSets, TLC

(***************************************************************************)
(* Bounds of the model (environment only: how often the caller subscribes  *)
(* successfully and how many responses the server gives).                  *)
(***************************************************************************)
MaxSubs == 2
MaxResponses == 2

(***************************************************************************)
(* Program constants.                                                      *)
(***************************************************************************)
VERSION == "1.0.0"
DEFAULT_HOST == "https://api.viteset.com"
\* time.Minute, in seconds
DEFAULT_INTERVAL == 60
userAgent == <<"Viteset-Client-Go", VERSION>>
StatusOK == 200
StatusNotModified == 304

(***************************************************************************)
(* Go's nil for the pointer, slice and error values of the program.        *)
(* A *string is NilStr or a string; the empty string is a non-nil value.   *)
(***************************************************************************)
NilStr == "<nil>"
NilErr == <<>>
NilTicker == 0

Subs == 1..MaxSubs

VARIABLES
    c,          \* the Client struct: Secret, Blob, Interval, Host, last, ticker
    tickers,    \* the runtime's time.Ticker objects: state and buffered channel C
    task,       \* the polling goroutines: position and locals
    ret,        \* what the caller's latest Subscribe()/Cancel() returned
    crashed,    \* the process died of an unrecovered panic
    nsubs,      \* tickers/channels/goroutines allocated so far
    writes,     \* every value assigned to c.ticker, in order (for racy reads)
    canceled,   \* history: subscriptions whose Cancel() has returned
    outcomes,   \* history: per goroutine, the results fetch returned
    delivered   \* history: per channel, the Updates the consumer received

vars == <<c, tickers, task, ret, crashed, nsubs, writes, canceled,
          outcomes, delivered>>

(***************************************************************************)
(* The environment's HTTP responses.  doErr: client.Do failed; readErr:    *)
(* reading the body failed; otherwise a status, a body and the ETag header *)
(* ("" when the response has none, as http.Header.Get returns).            *)
(***************************************************************************)
HttpResp(status, body, etag) ==
    [doErr |-> NilErr, readErr |-> NilErr, StatusCode |-> status,
     Body |-> body, ETag |-> etag]

\* The responses the polled server gives in the model.
PollResponses ==
    { HttpResp(StatusOK, "A", "e1"),
      HttpResp(StatusOK, "B", "e2"),
      HttpResp(StatusNotModified, "", ""),
      HttpResp(500, "oops", "") }

(***************************************************************************)
(* Active (client.go:91-93).                                               *)
(***************************************************************************)
Active == c.ticker # NilTicker

(***************************************************************************)
(* The request fetch builds (client.go:98-106): the conditional header is  *)
(* added only when lastEtag is not nil.                                    *)
(***************************************************************************)
Request(cl, lastEtag) ==
    [Method |-> "GET",
     URL    |-> <<cl.Host, "/", cl.Blob>>,
     Header |-> {<<"User-Agent", userAgent>>,
                 <<"Authorization", <<"Bearer", cl.Secret>>>>}
                \cup (IF lastEtag # NilStr
                      THEN {<<"If-None-Match", lastEtag>>} ELSE {})]

\* Faulty variant: fetch takes every 2xx status for a changed value.
fetchAccepts2xx(resp) ==
    IF resp.doErr # NilErr THEN [same |-> FALSE, data |-> NilStr,
                                 etag |-> NilStr, err |-> resp.doErr]
    ELSE IF resp.readErr # NilErr THEN [same |-> FALSE, data |-> NilStr,
                                        etag |-> NilStr, err |-> resp.readErr]
    ELSE IF resp.StatusCode = StatusNotModified
        THEN [same |-> TRUE, data |-> NilStr, etag |-> NilStr, err |-> NilErr]
    ELSE IF resp.StatusCode \div 100 # StatusOK \div 100
        THEN [same |-> FALSE, data |-> NilStr, etag |-> NilStr,
              err |-> <<"expected status code", StatusOK, "but got",
                        resp.StatusCode, resp.Body>>]
    ELSE [same |-> FALSE, data |-> resp.Body, etag |-> resp.ETag,
          err |-> NilErr]

(***************************************************************************)
(* What fetch returns for a response (client.go:107-123).                  *)
(***************************************************************************)
FetchResult(same, data, etag, err) ==
    [same |-> same, data |-> data, etag |-> etag, err |-> err]

fetch(resp) ==
    IF resp.doErr # NilErr THEN FetchResult(FALSE, NilStr, NilStr, resp.doErr)
    ELSE IF resp.readErr # NilErr
        THEN FetchResult(FALSE, NilStr, NilStr, resp.readErr)
    ELSE IF resp.StatusCode = StatusNotModified
        THEN FetchResult(TRUE, NilStr, NilStr, NilErr)
    ELSE IF resp.StatusCode # StatusOK
        THEN FetchResult(FALSE, NilStr, NilStr,
                 <<"expected status code", StatusOK, "but got",
                   resp.StatusCode, resp.Body>>)
    ELSE FetchResult(FALSE, resp.Body, resp.ETag, NilErr)

(***************************************************************************)
(* The Update struct (client.go:32-35).                                    *)
(***************************************************************************)
Update(value, error) == [Value |-> value, Error |-> error]

\* Faulty variant: an unchanged blob is sent like a changed one.
AfterFetchSendsUnchanged(r) ==
    IF r.err # NilErr THEN [pc |-> "send_err", upd |-> Update(NilStr, r.err)]
    ELSE [pc |-> "send_val", upd |-> Update(r.data, NilErr)]

\* Faulty variant: the goroutine returns when a fetch fails.
AfterFetchStopsOnError(r) ==
    IF r.err # NilErr THEN [pc |-> "none", upd |-> Update(NilStr, NilErr)]
    ELSE IF r.same THEN [pc |-> "load", upd |-> Update(NilStr, NilErr)]
    ELSE [pc |-> "send_val", upd |-> Update(r.data, NilErr)]

\* Faulty variant: the cache is written after every fetch that did not fail.
AfterFetchStoresUnchanged(r) ==
    IF r.err # NilErr THEN [pc |-> "send_err", upd |-> Update(NilStr, r.err)]
    ELSE IF r.same THEN [pc |-> "store", upd |-> Update(NilStr, NilErr)]
    ELSE [pc |-> "send_val", upd |-> Update(r.data, NilErr)]

\* Faulty variant: a failed fetch is skipped silently.
AfterFetchDropsError(r) ==
    IF r.err # NilErr \/ r.same
        THEN [pc |-> "load", upd |-> Update(NilStr, NilErr)]
    ELSE [pc |-> "send_val", upd |-> Update(r.data, NilErr)]

(***************************************************************************)
(* The goroutine's branch on fetch's result (client.go:64-74): where it    *)
(* goes next and the Update it is about to send.                           *)
(***************************************************************************)
AfterFetch(r) ==
    IF r.err # NilErr THEN [pc |-> "send_err", upd |-> Update(NilStr, r.err)]
    ELSE IF r.same THEN [pc |-> "load", upd |-> Update(NilStr, NilErr)]
    ELSE [pc |-> "send_val", upd |-> Update(r.data, NilErr)]

NoTicker == [state |-> "none", C |-> 0, d |-> 0]

NoRequest == [Method |-> "", URL |-> <<>>, Header |-> {}]

NoTask ==
    [pc |-> "none", lastEtag |-> NilStr, req |-> NoRequest,
     res |-> FetchResult(FALSE, NilStr, NilStr, NilErr),
     upd |-> Update(NilStr, NilErr), t |-> NilTicker, view |-> 0]

\* Faulty variant: the loop waits for a tick before its first fetch.
CallFetchAfterFirstTick(cl, tk) ==
    IF tk.pc = "none" THEN [tk EXCEPT !.pc = "load"]
    ELSE [tk EXCEPT !.pc = "await", !.req = Request(cl, tk.lastEtag)]

(***************************************************************************)
(* The goroutine calls fetch (client.go:63): fetch builds the request from *)
(* lastEtag and client.Do sends it (client.go:97-107); the goroutine then  *)
(* awaits the round trip.                                                  *)
(***************************************************************************)
CallFetch(cl, tk) ==
    [tk EXCEPT !.pc = "await", !.req = Request(cl, tk.lastEtag)]

Init ==
    /\ c \in [Secret : {"", "s3cr3t"}, Blob : {"", "blob"}, Interval : {0},
              Host : {""}, last : {NilStr}, ticker : {NilTicker}]
    /\ tickers = [t \in Subs |-> NoTicker]
    /\ task = [g \in Subs |-> NoTask]
    /\ ret = [op |-> "none", err |-> NilErr]
    /\ crashed = FALSE
    /\ nsubs = 0
    /\ writes = <<>>
    /\ canceled = {}
    /\ outcomes = [g \in Subs |-> <<>>]
    /\ delivered = [ch \in Subs |-> <<>>]

(***************************************************************************)
(* An unrecovered panic in a goroutine ends the process: the Client, its   *)
(* tickers and its goroutines are gone.  What the caller and the consumer  *)
(* have seen (the history variables) stays.                                *)
(***************************************************************************)
Panic ==
    /\ crashed' = TRUE
    /\ c' = [c EXCEPT !.last = NilStr, !.ticker = NilTicker]
    /\ tickers' = [t \in Subs |-> NoTicker]
    /\ task' = [h \in Subs |-> NoTask]
    /\ nsubs' = 0
    /\ writes' = <<>>
    /\ UNCHANGED <<ret, canceled, outcomes, delivered>>

\* Faulty variant: Subscribe without the check for an active subscription.
SubscribeErrorNoActiveCheck ==
    IF c.Blob = "" THEN <<"missing blob name">>
    ELSE IF c.Secret = "" THEN <<"missing secret">>
    ELSE NilErr

\* Faulty variant: Subscribe without the check for the secret.
SubscribeErrorNoSecretCheck ==
    IF c.ticker # NilTicker
        THEN <<"cannot re-subscribe with a closed Client">>
    ELSE IF c.Blob = "" THEN <<"missing blob name">>
    ELSE NilErr

(***************************************************************************)
(* Subscribe's checks (client.go:41-49): the error it returns, or NilErr.  *)
(***************************************************************************)
SubscribeError ==
    IF c.ticker # NilTicker
        THEN <<"cannot re-subscribe with a closed Client">>
    ELSE IF c.Blob = "" THEN <<"missing blob name">>
    ELSE IF c.Secret = "" THEN <<"missing secret">>
    ELSE NilErr

\* Faulty variant: Subscribe overwrites the caller's host and interval.
WithDefaultsAlways(cl) ==
    [cl EXCEPT !.Host = DEFAULT_HOST, !.Interval = DEFAULT_INTERVAL]

(***************************************************************************)
(* The defaults Subscribe applies (client.go:50-55).                       *)
(***************************************************************************)
WithDefaults(cl) ==
    [cl EXCEPT !.Host = IF @ = "" THEN DEFAULT_HOST ELSE @,
               !.Interval = IF @ = 0 THEN DEFAULT_INTERVAL ELSE @]

(***************************************************************************)
(* Subscribe (client.go:40-80).  On success it allocates the channel, the  *)
(* ticker and the goroutine, all numbered nsubs + 1.                       *)
(***************************************************************************)
Subscribe ==
    /\ ~crashed
    /\ IF SubscribeError # NilErr
       THEN /\ ret' = [op |-> "Subscribe", err |-> SubscribeError]
            /\ UNCHANGED <<c, tickers, task, crashed, nsubs, writes,
                           canceled, outcomes, delivered>>
       ELSE /\ nsubs < MaxSubs
            /\ LET id == nsubs + 1 IN
               /\ c' = [WithDefaults(c) EXCEPT !.ticker = id]
               /\ tickers' = [tickers EXCEPT ![id] =
                     [state |-> "running", C |-> 0, d |-> c'.Interval]]
               /\ writes' = Append(writes, id)
               /\ task' = [task EXCEPT ![id] =
                     CallFetch(c', [NoTask EXCEPT !.view = Len(writes')])]
               /\ nsubs' = id
               /\ ret' = [op |-> "Subscribe", err |-> NilErr]
            /\ UNCHANGED <<crashed, canceled, outcomes, delivered>>

\* Faulty variant: Cancel stops the ticker without asking Active() first.
CancelUnguarded ==
    /\ ~crashed
    /\ IF c.ticker = NilTicker
       THEN Panic
       ELSE /\ tickers' = [tickers EXCEPT ![c.ticker].state = "stopped"]
            /\ c' = [c EXCEPT !.ticker = NilTicker]
            /\ writes' = Append(writes, NilTicker)
            /\ canceled' = canceled \cup {c.ticker}
            /\ ret' = [op |-> "Cancel", err |-> NilErr]
            /\ UNCHANGED <<task, crashed, nsubs, outcomes, delivered>>

(***************************************************************************)
(* Cancel (client.go:83-88).  Ticker.Stop neither closes nor drains the    *)
(* ticker's channel.                                                       *)
(***************************************************************************)
Cancel ==
    /\ ~crashed
    /\ IF Active
       THEN /\ tickers' = [tickers EXCEPT ![c.ticker].state = "stopped"]
            /\ c' = [c EXCEPT !.ticker = NilTicker]
            /\ writes' = Append(writes, NilTicker)
            /\ canceled' = canceled \cup {c.ticker}
       ELSE UNCHANGED <<c, tickers, writes, canceled>>
    /\ ret' = [op |-> "Cancel", err |-> NilErr]
    /\ UNCHANGED <<task, crashed, nsubs, outcomes, delivered>>

(***************************************************************************)
(* The round trip ends with response resp; fetch returns and the goroutine *)
(* branches on its result (client.go:63-74, 107-123).                      *)
(***************************************************************************)
FetchReturn(g, resp) ==
    /\ ~crashed
    /\ task[g].pc = "await"
    /\ LET r == fetch(resp) IN
       /\ task' = [task EXCEPT ![g].res = r,
                               ![g].pc = AfterFetch(r).pc,
                               ![g].upd = AfterFetch(r).upd]
       /\ outcomes' = [outcomes EXCEPT ![g] = Append(@, r)]
    /\ UNCHANGED <<c, tickers, ret, crashed, nsubs, writes, canceled,
                   delivered>>

\* Faulty variant: a send that gives up when the next tick is already there.
DeliverUnlessTick(g) ==
    /\ ~crashed
    /\ task[g].pc \in {"send_err", "send_val"}
    /\ IF tickers[g].C > 0
       THEN /\ task' = [task EXCEPT ![g].pc = "load"]
            /\ UNCHANGED delivered
       ELSE /\ delivered' = [delivered EXCEPT ![g] = Append(@, task[g].upd)]
            /\ task' = [task EXCEPT ![g].pc =
                           IF task[g].pc = "send_val" THEN "store" ELSE "load"]
    /\ UNCHANGED <<c, tickers, ret, crashed, nsubs, writes, canceled,
                   outcomes>>

(***************************************************************************)
(* The consumer receives from channel g, completing the goroutine's send   *)
(* (client.go:66 and 71; the channel is unbuffered, client.go:58).         *)
(***************************************************************************)
Deliver(g) ==
    /\ ~crashed
    /\ task[g].pc \in {"send_err", "send_val"}
    /\ delivered' = [delivered EXCEPT ![g] = Append(@, task[g].upd)]
    /\ task' = [task EXCEPT ![g].pc =
                   IF task[g].pc = "send_val" THEN "store" ELSE "load"]
    /\ UNCHANGED <<c, tickers, ret, crashed, nsubs, writes, canceled,
                   outcomes>>

\* Faulty variant: the new value is cached but lastEtag is not updated.
StoreKeepsOldEtag(g) ==
    /\ ~crashed
    /\ task[g].pc = "store"
    /\ c' = [c EXCEPT !.last = task[g].res.data]
    /\ task' = [task EXCEPT ![g].pc = "load"]
    /\ UNCHANGED <<tickers, ret, crashed, nsubs, writes, canceled,
                   outcomes, delivered>>

(***************************************************************************)
(* After a value was sent: c.last = data; lastEtag = etag                  *)
(* (client.go:72-73).                                                      *)
(***************************************************************************)
Store(g) ==
    /\ ~crashed
    /\ task[g].pc = "store"
    /\ c' = [c EXCEPT !.last = task[g].res.data]
    /\ task' = [task EXCEPT ![g].lastEtag = task[g].res.etag,
                            ![g].pc = "load"]
    /\ UNCHANGED <<tickers, ret, crashed, nsubs, writes, canceled,
                   outcomes, delivered>>

(***************************************************************************)
(* The goroutine evaluates c.ticker.C (client.go:75).  The read of         *)
(* c.ticker is not synchronised with the caller's writes in Subscribe and  *)
(* Cancel: it yields the latest value or an older one not older than what  *)
(* this goroutine saw before.  Dereferencing a nil c.ticker panics.        *)
(***************************************************************************)
LoadTicker(g) ==
    /\ ~crashed
    /\ task[g].pc = "load"
    /\ \E i \in task[g].view..Len(writes) :
          IF writes[i] = NilTicker
          THEN Panic
          ELSE /\ task' = [task EXCEPT ![g].pc = "wait", ![g].t = writes[i],
                                       ![g].view = i]
               /\ UNCHANGED <<c, tickers, ret, crashed, nsubs, writes,
                              canceled, outcomes, delivered>>

(***************************************************************************)
(* The goroutine receives a tick from the ticker's channel (client.go:75)  *)
(* and starts the next iteration with a call of fetch (client.go:62-63).   *)
(***************************************************************************)
RecvTick(g) ==
    /\ ~crashed
    /\ task[g].pc = "wait"
    /\ tickers[task[g].t].C > 0
    /\ tickers' = [tickers EXCEPT ![task[g].t].C = 0]
    /\ task' = [task EXCEPT ![g] = CallFetch(c, task[g])]
    /\ UNCHANGED <<c, ret, crashed, nsubs, writes, canceled, outcomes,
                   delivered>>

(***************************************************************************)
(* The interval of a running ticker elapses (time.NewTicker,               *)
(* client.go:59): the runtime puts a tick in the channel's one-slot buffer *)
(* and drops it when the slot is taken.  A stopped ticker ticks no more;   *)
(* Stop does not close the channel and, before Go 1.23, leaves a tick      *)
(* that is already in the buffer where it is.                              *)
(***************************************************************************)
Tick(t) ==
    /\ ~crashed
    /\ tickers[t].state = "running"
    /\ tickers' = [tickers EXCEPT ![t].C = 1]
    /\ UNCHANGED <<c, task, ret, crashed, nsubs, writes, canceled, outcomes,
                   delivered>>

RECURSIVE SumLen(_, _)
SumLen(f, n) == IF n = 0 THEN 0 ELSE Len(f[n]) + SumLen(f, n - 1)

\* The responses the server has given so far.
Served == SumLen(outcomes, MaxSubs)

(***************************************************************************)
(* The server answers the request of goroutine g, while it still answers.  *)
(***************************************************************************)
Respond(g) ==
    /\ Served < MaxResponses
    /\ \E resp \in PollResponses : FetchReturn(g, resp)

Next ==
    \/ Subscribe
    \/ Cancel
    \/ \E g \in Subs : Respond(g)
    \/ \E g \in Subs : Deliver(g)
    \/ \E g \in Subs : Store(g)
    \/ \E g \in Subs : LoadTicker(g)
    \/ \E g \in Subs : RecvTick(g)
    \/ \E t \in Subs : Tick(t)

Spec == Init /\ [][Next]_vars

(***************************************************************************)
(* A subscription that is not canceled: the caller never calls Cancel().   *)
(* Fairness: the Go scheduler runs a goroutine that can run (it stores,    *)
(* reads c.ticker, takes a tick that is there), a running ticker ticks     *)
(* when its interval elapses, and the consumer keeps reading the channel.  *)
(* Nothing is assumed of the server or of the caller.                      *)
(***************************************************************************)
NextPoll ==
    \/ Subscribe
    \/ \E g \in Subs : Respond(g)
    \/ \E g \in Subs : Deliver(g)
    \/ \E g \in Subs : Store(g)
    \/ \E g \in Subs : LoadTicker(g)
    \/ \E g \in Subs : RecvTick(g)
    \/ \E t \in Subs : Tick(t)

FairPollSpec ==
    /\ Init /\ [][NextPoll]_vars
    /\ \A g \in Subs : /\ WF_vars(Deliver(g))
                        /\ WF_vars(Store(g))
                        /\ WF_vars(LoadTicker(g))
                        /\ WF_vars(RecvTick(g))
    /\ \A t \in Subs : WF_vars(Tick(t))

(***************************************************************************)
(* The scenario of the spec's property P3: one subscription that is never  *)
(* canceled, polling a server that answers its requests with a fixed       *)
(* sequence: Changed(A), Unchanged, Changed(B), Failed, Unchanged,         *)
(* Changed(C).                                                             *)
(***************************************************************************)
P3Script ==
    << HttpResp(StatusOK, "A", "e1"),
       HttpResp(StatusNotModified, "", ""),
       HttpResp(StatusOK, "B", "e2"),
       HttpResp(500, "oops", ""),
       HttpResp(StatusNotModified, "", ""),
       HttpResp(StatusOK, "C", "e3") >>

RespondP3(g) ==
    /\ Len(outcomes[g]) < Len(P3Script)
    /\ FetchReturn(g, P3Script[Len(outcomes[g]) + 1])

NextP3 ==
    \/ Subscribe
    \/ \E g \in Subs : RespondP3(g)
    \/ \E g \in Subs : Deliver(g)
    \/ \E g \in Subs : Store(g)
    \/ \E g \in Subs : LoadTicker(g)
    \/ \E g \in Subs : RecvTick(g)
    \/ \E t \in Subs : Tick(t)

SpecP3 == Init /\ [][NextP3]_vars

(***************************************************************************)
(* Every configuration of the Client and every kind of response.  The      *)
(* caller sets Secret, Blob, Interval and Host freely before Subscribe();  *)
(* the round trip fails in client.Do or in reading the body, or gives a    *)
(* status, a body (possibly empty) and possibly an ETag header.  The       *)
(* subscription is not canceled.                                           *)
(***************************************************************************)
Responses ==
    PollResponses \cup
    { [doErr |-> <<"dial tcp: connection refused">>, readErr |-> NilErr,
       StatusCode |-> 0, Body |-> NilStr, ETag |-> ""],
      [doErr |-> NilErr, readErr |-> <<"unexpected EOF">>,
       StatusCode |-> StatusOK, Body |-> NilStr, ETag |-> "e1"],
      HttpResp(StatusOK, "", "e1"),
      HttpResp(StatusOK, "A", ""),
      HttpResp(StatusNotModified, "stale", "e2"),
      HttpResp(204, "", "e1"),
      HttpResp(404, "no such blob", "") }

InitWide ==
    /\ c \in [Secret : {"", "s3cr3t"}, Blob : {"", "blob"},
              Interval : {0, 15}, Host : {"", "http://localhost:8080"},
              last : {NilStr}, ticker : {NilTicker}]
    /\ tickers = [t \in Subs |-> NoTicker]
    /\ task = [g \in Subs |-> NoTask]
    /\ ret = [op |-> "none", err |-> NilErr]
    /\ crashed = FALSE
    /\ nsubs = 0
    /\ writes = <<>>
    /\ canceled = {}
    /\ outcomes = [g \in Subs |-> <<>>]
    /\ delivered = [ch \in Subs |-> <<>>]

RespondWide(g) ==
    /\ Served < MaxResponses
    /\ \E resp \in Responses : FetchReturn(g, resp)

NextWide ==
    \/ Subscribe
    \/ \E g \in Subs : RespondWide(g)
    \/ \E g \in Subs : Deliver(g)
    \/ \E g \in Subs : Store(g)
    \/ \E g \in Subs : LoadTicker(g)
    \/ \E g \in Subs : RecvTick(g)
    \/ \E t \in Subs : Tick(t)

WideSpec == InitWide /\ [][NextWide]_vars

(***************************************************************************)
(* Vocabulary of the properties.                                           *)
(***************************************************************************)
\* Everything of the program's state but what the last call returned.
progVars == <<c, tickers, task, crashed, nsubs, writes, canceled, outcomes,
              delivered>>

\* The three fetch outcomes, read off what fetch returned.
IsFailed(r) == r.err # NilErr
IsUnchanged(r) == r.err = NilErr /\ r.same
IsChanged(r) == r.err = NilErr /\ ~r.same

\* The Update a fetch outcome calls for (none for Unchanged).
UpdateFor(r) ==
    IF IsFailed(r) THEN Update(NilStr, r.err) ELSE Update(r.data, NilErr)

\* The Updates a sequence of fetch outcomes calls for, in order.
RECURSIVE ExpectedUpdates(_)
ExpectedUpdates(outs) ==
    IF outs = <<>> THEN <<>>
    ELSE IF IsUnchanged(Head(outs)) THEN ExpectedUpdates(Tail(outs))
    ELSE <<UpdateFor(Head(outs))>> \o ExpectedUpdates(Tail(outs))

Front(seq) == SubSeq(seq, 1, Len(seq) - 1)

Sending(g) == task[g].pc \in {"send_err", "send_val"}

(***************************************************************************)
(* C1: when Cancel() returns Active() is false, and once it has returned   *)
(* for a subscription no Update is delivered on that subscription's        *)
(* channel any more, wherever the goroutine was when Cancel() ran.         *)
(***************************************************************************)
NoDeliveryAfterCancel ==
    [][/\ Cancel => ~Active'
       /\ \A s \in Subs : s \in canceled => delivered'[s] = delivered[s]]_vars

(***************************************************************************)
(* C2: a canceled controller is terminal: once a subscription has been     *)
(* canceled, every later Subscribe() fails, starts nothing and leaves      *)
(* Active() false.                                                         *)
(***************************************************************************)
CanceledIsTerminal ==
    [][(canceled # {} /\ Subscribe) =>
          (ret'.err # NilErr /\ ~Active' /\ UNCHANGED progVars)]_vars

(***************************************************************************)
(* C3: on every channel the Updates delivered so far are exactly the       *)
(* Updates the goroutine's fetch outcomes call for, in fetch order: one    *)
(* with the value per Changed, one with the error per Failed, none per     *)
(* Unchanged; the last one is missing only while the goroutine is still    *)
(* blocked sending it.  This holds for every subscription, so in           *)
(* particular for one that is never canceled and whose consumer reads.     *)
(***************************************************************************)
DeliveredMatchesOutcomes ==
    ~crashed =>
        \A g \in Subs :
            delivered[g] = IF Sending(g)
                           THEN Front(ExpectedUpdates(outcomes[g]))
                           ELSE ExpectedUpdates(outcomes[g])

\* A failure and then a changed value were fetched and both delivered, in
\* that order, on a subscription that was not canceled.
DeliveredMatchesOutcomesWitness ==
    \E g \in Subs :
        /\ g \notin canceled
        /\ Len(outcomes[g]) = 2
        /\ IsFailed(outcomes[g][1]) /\ IsChanged(outcomes[g][2])
        /\ delivered[g] = <<Update(NilStr, outcomes[g][1].err),
                            Update("B", NilErr)>>

(***************************************************************************)
(* C4 as stated: when the six outcomes of P3 have been fetched and         *)
(* handled, the Updates delivered are exactly value A, the error, value C. *)
(***************************************************************************)
P3Done(g) == Len(outcomes[g]) = Len(P3Script) /\ ~Sending(g)

P3Error == <<"expected status code", StatusOK, "but got", 500, "oops">>

P3DeliversAErrC ==
    \A g \in Subs :
        P3Done(g) => delivered[g] = << Update("A", NilErr),
                                       Update(NilStr, P3Error),
                                       Update("C", NilErr) >>

(***************************************************************************)
(* C4 amended: when the six outcomes of P3 have been fetched and handled,  *)
(* the Updates delivered are exactly value A, value B, the error, value C, *)
(* in that order.                                                          *)
(***************************************************************************)
P3DeliversABErrC ==
    \A g \in Subs :
        P3Done(g) => delivered[g] = << Update("A", NilErr),
                                       Update("B", NilErr),
                                       Update(NilStr, P3Error),
                                       Update("C", NilErr) >>

\* The subscription has handled all six outcomes of the scenario.
P3DeliversABErrCWitness ==
    \E g \in Subs : P3Done(g) /\ Len(delivered[g]) = 4 /\ task[g].pc = "wait"

(***************************************************************************)
(* C5: whenever a fetch is in flight, the validator its request carries    *)
(* (the If-None-Match header) is the ETag that came with the most recent   *)
(* Changed outcome of that goroutine, and the request has no such header   *)
(* if there was no Changed outcome yet; Failed and Unchanged outcomes in   *)
(* between neither clear nor replace it.                                   *)
(***************************************************************************)
\* The validator a request carries, NilStr when it has no conditional header.
ValidatorOf(req) ==
    IF \E h \in req.Header : h[1] = "If-None-Match"
    THEN (CHOOSE h \in req.Header : h[1] = "If-None-Match")[2]
    ELSE NilStr

\* The validator of the most recent Changed outcome, NilStr if there is none.
RECURSIVE LastChangedValidator(_)
LastChangedValidator(outs) ==
    IF outs = <<>> THEN NilStr
    ELSE IF IsChanged(outs[Len(outs)]) THEN outs[Len(outs)].etag
    ELSE LastChangedValidator(Front(outs))

ValidatorRoundTrip ==
    \A g \in Subs :
        task[g].pc = "await" =>
            ValidatorOf(task[g].req) = LastChangedValidator(outcomes[g])

\* A fetch is in flight after Changed(e1) and then a failure: it carries e1.
ValidatorRoundTripWitness ==
    \E g \in Subs :
        /\ task[g].pc = "await"
        /\ Len(outcomes[g]) = 2
        /\ IsChanged(outcomes[g][1]) /\ outcomes[g][1].etag = "e1"
        /\ IsFailed(outcomes[g][2])
        /\ <<"If-None-Match", "e1">> \in task[g].req.Header

(***************************************************************************)
(* C6: Subscribe() on an active controller returns an error and changes    *)
(* nothing: Active() stays true, no goroutine, ticker or channel is        *)
(* created, and the ticker, the cache and the running goroutine with its   *)
(* validator are as before.                                                *)
(***************************************************************************)
SubscribeWhileActiveChangesNothing ==
    [][(Active /\ Subscribe) =>
          (ret'.err # NilErr /\ Active' /\ UNCHANGED progVars)]_vars

\* Subscribe() has failed on an active controller whose subscription has
\* delivered an Update.
SubscribeWhileActiveWitness ==
    /\ Active
    /\ ret = [op |-> "Subscribe",
              err |-> <<"cannot re-subscribe with a closed Client">>]
    /\ delivered[c.ticker] # <<>>

(***************************************************************************)
(* C7: Subscribe() with an empty blob name or an empty secret returns an   *)
(* error at once and does nothing else: no goroutine, no ticker, no        *)
(* request, and Active() stays false.                                      *)
(***************************************************************************)
MissingFieldSubscribeFails ==
    [][((c.Blob = "" \/ c.Secret = "") /\ Subscribe) =>
          /\ ret'.err \in {<<"missing blob name">>, <<"missing secret">>}
          /\ ~Active'
          /\ \A g \in Subs : task'[g].pc = "none" /\ tickers'[g].state = "none"
          /\ UNCHANGED progVars]_vars

\* Subscribe() has been called with a blob name and no secret.
MissingFieldSubscribeWitness ==
    /\ c.Blob # "" /\ c.Secret = ""
    /\ ret = [op |-> "Subscribe", err |-> <<"missing secret">>]
    /\ ~Active /\ nsubs = 0

(***************************************************************************)
(* C10: Cancel() on a controller that is not active (never subscribed, or  *)
(* already canceled) changes nothing, returns normally and does not        *)
(* panic.                                                                  *)
(***************************************************************************)
CancelWhileInactiveIsNoOp ==
    [][(~Active /\ Cancel) =>
          (ret'.err = NilErr /\ ~crashed' /\ UNCHANGED progVars)]_vars

\* Cancel() has returned on a controller that was canceled before and whose
\* goroutine is still there.
CancelWhileInactiveWitness ==
    /\ ~Active /\ ~crashed
    /\ ret.op = "Cancel"
    /\ canceled # {}
    /\ \E g \in canceled : task[g].pc = "wait"

(***************************************************************************)
(* C8: while the subscription is not canceled and the consumer reads, the  *)
(* polling loop does not end on its own and failures do not stop it.  Step *)
(* by step: a failed fetch makes the goroutine send an Update with the     *)
(* error and no value, and that is what the consumer receives; a new fetch *)
(* starts only by taking one tick from the ticker (no retry before the     *)
(* next tick) and a tick taken starts exactly one fetch; a started         *)
(* goroutine never goes away.  And whatever its fetches returned, the      *)
(* goroutine gets back to a fetch again and again.                         *)
(***************************************************************************)
Last(seq) == seq[Len(seq)]

FailureStep(g) ==
    (task[g].pc = "await" /\ Len(outcomes'[g]) > Len(outcomes[g])
        /\ IsFailed(Last(outcomes'[g]))) =>
    /\ task'[g].pc = "send_err"
    /\ task'[g].upd = Update(NilStr, Last(outcomes'[g]).err)

ErrorDeliveryStep(g) ==
    (task[g].pc = "send_err" /\ task'[g].pc # "send_err") =>
    /\ delivered'[g] =
          Append(delivered[g], Update(NilStr, Last(outcomes[g]).err))
    /\ task'[g].pc = "load"

FetchOnlyOnTick(g) ==
    (task[g].pc \notin {"none", "await"} /\ task'[g].pc = "await") =>
    /\ task[g].pc = "wait"
    /\ tickers[task[g].t].C = 1 /\ tickers'[task[g].t].C = 0

TickStartsFetch(g) ==
    (task[g].pc = "wait" /\ task'[g].pc # "wait") =>
    /\ task'[g].pc = "await"
    /\ tickers[task[g].t].C = 1 /\ tickers'[task[g].t].C = 0

LoopNeverEnds(g) ==
    task[g].pc # "none" => task'[g].pc \notin {"none", "panic"} /\ ~crashed'

PollingSurvivesFailures ==
    /\ [][\A g \in Subs : /\ FailureStep(g)
                          /\ ErrorDeliveryStep(g)
                          /\ FetchOnlyOnTick(g)
                          /\ TickStartsFetch(g)
                          /\ LoopNeverEnds(g)]_vars
    /\ \A g \in Subs :
          (task[g].pc \in {"send_err", "send_val", "store", "load", "wait"})
              ~> (task[g].pc = "await")

\* After two failed fetches in a row, both delivered, the goroutine is
\* fetching a third time.
PollingSurvivesFailuresWitness ==
    \E g \in Subs :
        /\ Len(outcomes[g]) = 2
        /\ IsFailed(outcomes[g][1]) /\ IsFailed(outcomes[g][2])
        /\ delivered[g] = << Update(NilStr, outcomes[g][1].err),
                             Update(NilStr, outcomes[g][2].err) >>
        /\ task[g].pc = "await"

(***************************************************************************)
(* C9: after Cancel() the goroutine of the canceled subscription            *)
(* terminates; it does not stay around for ever.  A goroutine that waits   *)
(* for a tick of a stopped ticker whose channel is empty can never take    *)
(* another step (nothing restarts a stopped ticker), so the claim needs    *)
(* that no canceled subscription's goroutine is ever in that position.     *)
(***************************************************************************)
StrandedOnStoppedTicker(g) ==
    /\ task[g].pc = "wait"
    /\ tickers[task[g].t].state = "stopped"
    /\ tickers[task[g].t].C = 0

CanceledTaskTerminates ==
    \A g \in canceled : task[g].pc = "none" \/ ~StrandedOnStoppedTicker(g)

(***************************************************************************)
(* C11: the cache (c.last) and the validator (lastEtag) change only for a  *)
(* Changed outcome: a step that changes the validator of a goroutine, or   *)
(* c.last, is the store of a goroutine whose latest outcome is Changed and *)
(* writes that outcome's value and validator; so a Failed and an Unchanged *)
(* outcome leave both as they were.  And an Unchanged outcome delivers no  *)
(* Update: the goroutine goes on to wait for the next tick.                *)
(***************************************************************************)
ValidatorWrittenOnlyForChanged(g) ==
    task'[g].lastEtag # task[g].lastEtag =>
        /\ task[g].pc = "store"
        /\ IsChanged(Last(outcomes[g]))
        /\ task'[g].lastEtag = Last(outcomes[g]).etag

CacheWrittenOnlyForChanged ==
    c'.last # c.last =>
        \E g \in Subs : /\ task[g].pc = "store" /\ task'[g].pc = "load"
                        /\ IsChanged(Last(outcomes[g]))
                        /\ c'.last = Last(outcomes[g]).data

NoWriteAfterFailedOrUnchanged(g) ==
    (Len(outcomes'[g]) > Len(outcomes[g]) /\ ~IsChanged(Last(outcomes'[g])))
        => (c'.last = c.last /\ task'[g].lastEtag = task[g].lastEtag
            /\ task'[g].pc # "store")

UnchangedDeliversNothing(g) ==
    /\ (Len(outcomes'[g]) > Len(outcomes[g])
            /\ IsUnchanged(Last(outcomes'[g])))
        => (task'[g].pc = "load" /\ delivered'[g] = delivered[g])
    /\ delivered'[g] # delivered[g] => ~IsUnchanged(Last(outcomes[g]))

CacheChangesOnlyOnChanged ==
    [][~crashed' =>
          /\ CacheWrittenOnlyForChanged
          /\ \A g \in Subs : /\ ValidatorWrittenOnlyForChanged(g)
                             /\ NoWriteAfterFailedOrUnchanged(g)
                             /\ UnchangedDeliversNothing(g)]_vars

\* After Changed(A, e1) and then an Unchanged outcome the goroutine waits for
\* a tick with A and e1 still cached and only A delivered.
CacheChangesOnlyOnChangedWitness ==
    \E g \in Subs :
        /\ Len(outcomes[g]) = 2
        /\ IsChanged(outcomes[g][1]) /\ IsUnchanged(outcomes[g][2])
        /\ task[g].pc = "wait"
        /\ c.last = "A" /\ task[g].lastEtag = "e1"
        /\ delivered[g] = <<Update("A", NilErr)>>

(***************************************************************************)
(* C12: the goroutine a successful Subscribe() starts begins with a fetch, *)
(* not with a wait: its first step is the request without validator, and   *)
(* by the time it takes its first tick from the ticker the first fetch has *)
(* returned and, unless it was Unchanged, its Update has been received.    *)
(* So the first Update needs no tick.                                      *)
(***************************************************************************)
StartsWithFetch(g) ==
    (task[g].pc = "none" /\ task'[g].pc # "none") =>
        /\ Subscribe /\ ret'.err = NilErr
        /\ task'[g].pc = "await"
        /\ task'[g].req = Request(c', NilStr)
        /\ tickers'[g].C = 0

FirstUpdateBeforeFirstTick(g) ==
    (task[g].pc = "wait" /\ task'[g].pc = "await") =>
        /\ Len(outcomes[g]) >= 1
        /\ ~IsUnchanged(outcomes[g][1]) =>
              /\ delivered[g] # <<>>
              /\ delivered[g][1] = UpdateFor(outcomes[g][1])

NoWaitBeforeFirstFetch(g) ==
    task'[g].pc \in {"load", "wait"} => Len(outcomes'[g]) >= 1

FirstFetchNeedsNoTick ==
    [][\A g \in Subs : /\ StartsWithFetch(g)
                       /\ FirstUpdateBeforeFirstTick(g)
                       /\ NoWaitBeforeFirstFetch(g)]_vars

\* The initial value has been received and stored while the ticker of the
\* first subscription has not ticked yet: its buffer is empty and its
\* goroutine, the only one, has not come to wait for a tick.
FirstFetchNeedsNoTickWitness ==
    /\ nsubs = 1 /\ Active
    /\ outcomes[1] = <<FetchResult(FALSE, "A", "e1", NilErr)>>
    /\ delivered[1] = <<Update("A", NilErr)>>
    /\ task[1].pc = "load"
    /\ tickers[1].C = 0

(***************************************************************************)
(* C13: every Update received from the channel has exactly one of Value    *)
(* and Error set (not nil): the Update the goroutine sends for a Changed   *)
(* result carries the result's data and no error, the one it sends for a   *)
(* Failed result carries the result's error and no value.  A body of       *)
(* length zero is a value.                                                 *)
(***************************************************************************)
ExactlyOnePopulated(u) == (u.Value # NilStr) <=> (u.Error = NilErr)

SentUpdateMatchesResult(g) ==
    LET r == Last(outcomes[g]) IN
    /\ IsChanged(r) => /\ task[g].upd.Value = r.data
                       /\ task[g].upd.Value # NilStr
                       /\ task[g].upd.Error = NilErr
    /\ IsFailed(r) => /\ task[g].upd.Error = r.err
                      /\ task[g].upd.Value = NilStr

UpdateHasValueOrError ==
    \A g \in Subs :
        /\ \A i \in 1..Len(delivered[g]) : ExactlyOnePopulated(delivered[g][i])
        /\ Sending(g) => /\ ExactlyOnePopulated(task[g].upd)
                         /\ SentUpdateMatchesResult(g)
        /\ task[g].pc \in {"store", "load"} /\ ~IsUnchanged(Last(outcomes[g]))
              => Last(delivered[g]) = UpdateFor(Last(outcomes[g]))

\* The consumer has received an Update with an error and then one with a
\* value, the empty body of a 200 response.
UpdateHasValueOrErrorWitness ==
    \E g \in Subs :
        /\ Len(delivered[g]) = 2
        /\ delivered[g][1].Error # NilErr /\ delivered[g][1].Value = NilStr
        /\ delivered[g][2] = Update("", NilErr)

(***************************************************************************)
(* C14: fetch classifies a round trip by its status alone.  When the round *)
(* trip or the reading of the body fails the result is Failed; else status *)
(* 304 gives Unchanged without data and etag, status 200 gives Changed     *)
(* with the body and the ETag header, any other status gives Failed.  The  *)
(* result has exactly one of the three shapes.                             *)
(***************************************************************************)
FailedShape(r) ==
    r.err # NilErr /\ ~r.same /\ r.data = NilStr /\ r.etag = NilStr
UnchangedShape(r) ==
    r.err = NilErr /\ r.same /\ r.data = NilStr /\ r.etag = NilStr
ChangedShape(r) ==
    r.err = NilErr /\ ~r.same /\ r.data # NilStr /\ r.etag # NilStr

ExactlyOneShape(r) ==
    Cardinality({s \in {"failed", "unchanged", "changed"} :
                    \/ s = "failed" /\ FailedShape(r)
                    \/ s = "unchanged" /\ UnchangedShape(r)
                    \/ s = "changed" /\ ChangedShape(r)}) = 1

ClassifiedByStatus(resp, r) ==
    /\ ExactlyOneShape(r)
    /\ IF resp.doErr # NilErr \/ resp.readErr # NilErr THEN FailedShape(r)
       ELSE IF resp.StatusCode = 304 THEN UnchangedShape(r)
       ELSE IF resp.StatusCode = 200
           THEN ChangedShape(r) /\ r.data = resp.Body /\ r.etag = resp.ETag
       ELSE FailedShape(r)

FetchClassifiesByStatus ==
    [][\A g \in Subs : \A resp \in Responses :
          FetchReturn(g, resp) =>
              /\ ClassifiedByStatus(resp, Last(outcomes'[g]))
              /\ task'[g].res = Last(outcomes'[g])]_vars

\* One goroutine has got a failure for a status 204 and then a changed
\* value for a status 200.
FetchClassifiesByStatusWitness ==
    \E g \in Subs :
        /\ Len(outcomes[g]) = 2
        /\ outcomes[g][1].err = <<"expected status code", 200, "but got",
                                  204, "">>
        /\ outcomes[g][2] = FetchResult(FALSE, "A", "e1", NilErr)

(***************************************************************************)
(* C15: a Subscribe() that succeeds replaces an empty Host by DEFAULT_HOST *)
(* and a zero Interval by DEFAULT_INTERVAL and keeps a Host and an         *)
(* Interval the caller has set; the ticker runs with the resulting         *)
(* Interval.  No step changes Blob or Secret.                              *)
(***************************************************************************)
SubscribeAppliesDefaults ==
    [][/\ c'.Blob = c.Blob
       /\ c'.Secret = c.Secret
       /\ (Subscribe /\ ret'.err = NilErr) =>
             /\ c'.Host = IF c.Host = "" THEN DEFAULT_HOST ELSE c.Host
             /\ c'.Interval = IF c.Interval = 0 THEN DEFAULT_INTERVAL
                              ELSE c.Interval
             /\ tickers'[c'.ticker].d = c'.Interval]_vars

\* A subscription was made with an empty Host and an Interval of the
\* caller's, and its first request went to the default host.
SubscribeAppliesDefaultsWitness ==
    /\ Active
    /\ c.Host = DEFAULT_HOST /\ c.Interval = 15
    /\ c.Blob = "blob" /\ c.Secret = "s3cr3t"
    /\ tickers[c.ticker].d = 15
    /\ task[c.ticker].req.URL = <<DEFAULT_HOST, "/", "blob">>

(***************************************************************************)
(* C16: one Client never has more than one polling goroutine, and never    *)
(* two fetches in flight at once.                                          *)
(***************************************************************************)
PollingTasks == {g \in Subs : task[g].pc # "none"}
FetchesInFlight == {g \in Subs : task[g].pc = "await"}

OnePollingTaskOneFetch ==
    /\ Cardinality(PollingTasks) <= 1
    /\ Cardinality(FetchesInFlight) <= 1

(***************************************************************************)
(* C17: backpressure.  While the goroutine is sending an Update that the   *)
(* consumer has not received, no fetch of this goroutine starts or         *)
(* returns, whatever ticks arrive; what the channel delivers next is that  *)
(* Update; and as long as the process runs, the goroutine leaves the send  *)
(* only by that delivery.                                                  *)
(***************************************************************************)
NoFetchWhileSending(g) ==
    /\ task'[g].pc # "await"
    /\ outcomes'[g] = outcomes[g]

PendingUpdateDeliveredFirst(g) ==
    delivered'[g] # delivered[g] =>
        /\ delivered'[g] = Append(delivered[g], task[g].upd)
        /\ task'[g].pc \in {"store", "load"}

BlockedUntilDelivered(g) ==
    ~crashed' => \/ /\ task'[g] = task[g]
                    /\ delivered'[g] = delivered[g]
                 \/ /\ delivered'[g] = Append(delivered[g], task[g].upd)
                    /\ task'[g].pc \in {"store", "load"}

Backpressure ==
    [][\A g \in Subs : Sending(g) => /\ NoFetchWhileSending(g)
                                     /\ PendingUpdateDeliveredFirst(g)
                                     /\ BlockedUntilDelivered(g)]_vars

\* An Update is pending, the consumer has not received it, and the next
\* tick is already in the ticker's channel.
BackpressureWitness ==
    \E g \in Subs :
        /\ Sending(g)
        /\ tickers[g].state = "running" /\ tickers[g].C = 1
        /\ Len(outcomes[g]) = 2
        /\ delivered[g] = <<Update("A", NilErr)>>
        /\ task[g].upd = Update("B", NilErr)

(***************************************************************************)
(* C18: the goroutine's read of c.ticker (client.go:75) never yields the   *)
(* nil that Cancel() stored; the process never dies of it.                 *)
(***************************************************************************)
NeverReadsReleasedTicker == ~crashed

(***************************************************************************)
(* C19: when a goroutine waits for a tick, c.last is the value of the last *)
(* value-carrying Update its channel delivered (nil when there was none),  *)
(* and the goroutine's lastEtag is the etag that came with that value.     *)
(***************************************************************************)
RECURSIVE LastValue(_)
LastValue(upds) ==
    IF upds = <<>> THEN NilStr
    ELSE IF Last(upds).Error = NilErr THEN Last(upds).Value
    ELSE LastValue(Front(upds))

CacheIsLastDeliveredValue ==
    \A g \in Subs :
        task[g].pc = "wait" =>
            /\ c.last = LastValue(delivered[g])
            /\ task[g].lastEtag = LastChangedValidator(outcomes[g])

====
